---- MODULE Spec2Model ----
(***************************************************************************)
(* Model of ImmutableLogger (src/core/immutable-logger.py): the hash-      *)
(* chained, append-only log store with size-based rotation.                *)
(*                                                                         *)
(* Spec        one caller at a time: log(), verify() and the wall clock.   *)
(* SpecTamper  Spec plus the direct mutation of a block's data that        *)
(*             test_tamper_detection performs.                             *)
(* SpecConc    several threads inside log() on one instance, one step per  *)
(*             statement that touches shared state.                        *)
(* SpecFault   one caller, with statements of update_index() and rotate()  *)
(*             that can raise.                                             *)
(* SpecCloud   one caller with the cloud backup enabled, the executor's    *)
(*             worker threads and shutdown().                              *)
(* SpecQueue   several threads inside backup_to_cloud(), shutdown() and    *)
(*             the executor, one step per access to the backup queue.      *)
(* SpecRead    one caller that logs and calls read().                      *)
(* SpecAdmin   one caller with the cloud backup enabled that logs, shuts   *)
(*             down and calls the administrative operations.               *)
(* SpecEnc     one caller on a logger built with enable_encryption=True.   *)
(* SpecWrite   one caller, with a write to the live log that can raise.   *)
(* SpecCrash   log() calls made one after the other, statement by        *)
(*             statement, a crash of the process inside one of them and    *)
(*             the construction of a new logger on the directory.          *)
(* SpecRotate  SpecConc on a store the caller has logged to before it     *)
(*             starts the threads, so that a rotation can overlap appends. *)
(* SpecValidate several threads inside log(), one step per statement up   *)
(*             to the validation of the block and one step for the rest.   *)
(* SpecRestart one caller that logs and reads, and new instances built on  *)
(*             the same directory (a restart, or a second tenant).         *)
(*                                                                         *)
(* The store runs with the default options of the constructor except       *)
(* where a variable says otherwise: enable_cloud_backup = False.           *)
(***************************************************************************)
EXTENDS Integers, Sequences, FiniteSets, TLC

\* ---------------------------------------------------------------- bounds
MaxEntries == 4        \* log() calls made by the sequential caller
EnvCalls == 3          \* log() calls of the caller when faults or the backup are in play
BatchSize == 2         \* the backup_batch_size option
MaxLimit == 2          \* largest limit argument given to read()
MaxClock == 1          \* largest value the wall clock reaches
RotateSize == 12       \* the rotate_size option, in bytes of the live log
NumThreads == 2        \* writer threads of the concurrent specification
CallsPerThread == 1    \* log() calls each writer thread makes

Levels == {"INFO", "ERROR"}
Messages == {"a", "bbb"}
EmptyMeta == << >>
Metadatas == {EmptyMeta}
Threads == 1..NumThreads
PoolWorkers == 4       \* ThreadPoolExecutor(max_workers=4)

VARIABLES
    chain,              \* self.chain: the in-memory list of blocks
    log_file,           \* immutable.log: the lines written, oldest first
    log_mode,           \* permission bits of immutable.log: "r" (0o444) or "rw" (0o644)
    index_file,         \* log-index.json: the list under 'entries'
    hash_file,          \* log-hashes.json: the list under 'hashes'
    chain_file,         \* blockchain.json: the persisted chain
    archives,           \* immutable-<timestamp>.log.gz files: name -> content
    archive_tmp,        \* immutable-<timestamp>.log copies not yet removed: name -> file
    file_state,         \* per JSON file: "ok", "empty" (opened 'w', not yet written), "corrupt"
    enable_blockchain,  \* the enable_blockchain option
    now,                \* the wall clock read by datetime.utcnow()
    next_id,            \* number of uuid4() values drawn so far
    ret,                \* what the sequential caller's last call returned
    tampered_at,        \* index of the block the test mutated, -1 if none
    pc,                 \* per writer thread: the statement of log() it is at
    loc,                \* per writer thread: the locals of its log() call
    calls,              \* per writer thread: log() calls finished (returned or raised)
    opts,               \* the constructor's options, and whether the backend can fail
    backup_queue,       \* self.backup_queue: the (block, key) tasks not yet handed off
    bq_lock,            \* self.backup_lock: 0 when free, else the thread holding it
    pool,               \* self.executor: the batches submitted and not yet finished
    executor_down,      \* whether self.executor.shutdown() was called
    cloud_blocks,       \* remote store: the keys under blocks/ that hold a block
    cloud_archives,     \* remote store: the keys under archives/
    submitted,          \* every batch handed to the executor so far, in order, with
                        \* what its upload_batch has done
    sd,                 \* where the caller of shutdown() is
    last                \* what happened inside the sequential caller's last log() call

cloud_vars == <<opts, backup_queue, bq_lock, pool, executor_down, cloud_blocks,
                cloud_archives, submitted, sd, last>>

vars == <<chain, log_file, log_mode, index_file, hash_file, chain_file, archives,
          archive_tmp, file_state, enable_blockchain, now, next_id, ret, tampered_at,
          pc, loc, calls, cloud_vars>>

files == <<log_file, log_mode, index_file, hash_file, chain_file, archives>>
fs_aux == <<archive_tmp, file_state>>
thread_vars == <<pc, loc, calls>>

\* ------------------------------------------------------ pure functions

\* hashlib.sha256(data.encode()).hexdigest(): a digest is determined by the
\* data and distinct data give distinct digests; it is never the string '0'.
hash(data) == <<"sha256", data>>

\* The previousHash of block 0.
Genesis == <<"0">>

create_entry(level, message, metadata, id, ts) ==
    [id |-> id, timestamp |-> ts, level |-> level, message |-> message,
     metadata |-> metadata, hostname |-> "nodename", pid |-> "pid"]

\* json.dumps(entry): the values in key order.
json_dumps(entry) ==
    <<entry.id, entry.timestamp, entry.level, entry.message, entry.metadata,
      entry.hostname, entry.pid>>

\* json.loads(data) of a serialized entry.
json_loads(data) ==
    [id |-> data[1], timestamp |-> data[2], level |-> data[3], message |-> data[4],
     metadata |-> data[5], hostname |-> data[6], pid |-> data[7]]

\* Bytes of one line of immutable.log: data + '\n'.  The fields of fixed
\* width add the same amount to every line and are left out of the count.
LineLen(data) == Len(data[3]) + Len(data[4]) + 1

RECURSIVE st_size(_)
\* self.log_file.stat().st_size
st_size(lines) ==
    IF lines = << >> THEN 0 ELSE LineLen(Head(lines)) + st_size(Tail(lines))

\* gzip of the archive copy.
gzip(content) == <<"gzip", content>>

Last(s) == s[Len(s)]

\* new_block with the link left at the sentinel: previousHash is always '0'.
new_block_unlinked(ch, ts, data, entry_hash) ==
    [index |-> Len(ch), timestamp |-> ts, data |-> data, hash |-> entry_hash,
     previousHash |-> Genesis]

\* new_block with a one-based index: len(self.chain) + 1.
new_block_one_based(ch, ts, data, entry_hash) ==
    [index |-> Len(ch) + 1, timestamp |-> ts, data |-> data, hash |-> entry_hash,
     previousHash |-> IF ch # << >> THEN Last(ch).hash ELSE Genesis]

\* The block dict built in log().
new_block(ch, ts, data, entry_hash) ==
    [index |-> Len(ch),
     timestamp |-> ts,
     data |-> data,
     hash |-> entry_hash,
     previousHash |-> IF ch # << >> THEN Last(ch).hash ELSE Genesis]

is_valid_block(ch, block) ==
    IF ch = << >>
    THEN TRUE
    ELSE /\ block.previousHash = Last(ch).hash
         /\ block.hash = hash(block.data)

\* The indices i >= 1 (zero-based) at which verify() finds a mismatch.
BadBlocks(ch) ==
    {i \in 1..(Len(ch) - 1) :
        \/ ch[i + 1].hash # hash(ch[i + 1].data)
        \/ ch[i + 1].previousHash # ch[i].hash}

Min(S) == CHOOSE x \in S : \A y \in S : x <= y

\* verify with the loop started at 0, where chain[i - 1] is the last block.
verify_from_zero(ch, blockchain) ==
    IF blockchain /\ ch # << >> /\ ch[1].previousHash # Last(ch).hash
    THEN [op |-> "verify", ok |-> FALSE, first_bad |-> 0]
    ELSE IF blockchain /\ BadBlocks(ch) # {}
         THEN [op |-> "verify", ok |-> FALSE, first_bad |-> Min(BadBlocks(ch))]
         ELSE [op |-> "verify", ok |-> TRUE, first_bad |-> -1]

\* verify(): the boolean returned, and the block index printed with the
\* mismatch message (-1 when none is printed).
verify(ch, blockchain) ==
    IF blockchain /\ BadBlocks(ch) # {}
    THEN [op |-> "verify", ok |-> FALSE, first_bad |-> Min(BadBlocks(ch))]
    ELSE [op |-> "verify", ok |-> TRUE, first_bad |-> -1]

\* index_entry with the log size stored under 'timestamp'.
index_entry_mixed(entry, entry_hash, size) ==
    [id |-> entry.id, timestamp |-> size, level |-> entry.level,
     hash |-> entry_hash, offset |-> size]

\* The entry update_index() appends; size is the log file's size after the append.
index_entry(entry, entry_hash, size) ==
    [id |-> entry.id, timestamp |-> entry.timestamp, level |-> entry.level,
     hash |-> entry_hash, offset |-> size]

\* append_to_log with the file opened 'w' instead of 'a'.
append_to_log_overwrite(lines, data) == <<data>>

\* append_to_log that writes the line twice.
append_to_log_twice(lines, data) == Append(Append(lines, data), data)

\* append_to_log(): the file content after the write.
append_to_log(lines, data) == Append(lines, data)

\* check_rotation with the threshold taken twice as large.
check_rotation_doubled(lines) == st_size(lines) >= RotateSize + RotateSize

\* check_rotation with > in place of >=.
check_rotation_strict(lines) == st_size(lines) > RotateSize

\* check_rotation(): whether rotate() is called.
check_rotation(lines) == st_size(lines) >= RotateSize

\* The archive directory after rotate() wrote immutable-<ts>.log.gz.
put_archive(arch, ts, lines) ==
    [n \in DOMAIN arch \cup {ts} |-> IF n = ts THEN gzip(lines) ELSE arch[n]]

NoRet == [op |-> "none"]

\* The receipt log() returns.
receipt(entry_hash, block) ==
    [op |-> "log", success |-> TRUE, hash |-> entry_hash, index |-> block.index]

\* save_chain() run before self.chain.append(block): the snapshot lacks the
\* newest block.
save_chain_before_append(ch) ==
    [i \in 1..(Len(ch) - 1) |->
        <<ch[i].index, ch[i].timestamp, ch[i].data, ch[i].hash, ch[i].previousHash>>]

\* save_chain(): json.dumps(self.chain), each block as its values in key order.
save_chain(ch) ==
    [i \in 1..Len(ch) |->
        <<ch[i].index, ch[i].timestamp, ch[i].data, ch[i].hash, ch[i].previousHash>>]

\* load_chain() that loses the first block of blockchain.json.
load_chain_skip_first(text) ==
    [i \in 1..(Len(text) - 1) |->
        [index |-> text[i + 1][1], timestamp |-> text[i + 1][2], data |-> text[i + 1][3],
         hash |-> text[i + 1][4], previousHash |-> text[i + 1][5]]]

\* load_chain(): json.loads of blockchain.json.
load_chain(text) ==
    [i \in 1..Len(text) |->
        [index |-> text[i][1], timestamp |-> text[i][2], data |-> text[i][3],
         hash |-> text[i][4], previousHash |-> text[i][5]]]

\* The locals of a log() call before it has computed anything, with the
\* outcome of the thread's previous call: result (returned) or error (raised).
Locals0 ==
    [entry |-> << >>, data |-> << >>, entry_hash |-> << >>, index |-> 0,
     block |-> << >>, index_copy |-> << >>, hashes_copy |-> << >>,
     chain_text |-> << >>, rot_ts |-> 0, queue_copy |-> << >>, result |-> NoRet,
     error |-> "none"]

\* ------------------------------------------------------------ the store

\* What the last log() call did besides its append: nothing yet.
\* options.get('tenantId') of a logger constructed without that option.
NoTenant == ""

NoLast == [op |-> "none"]

\* The files and the chain after ImmutableLogger(log_dir) on a directory that
\* did not exist, and no call made yet.
StoreInit ==
    /\ chain = << >>
    /\ log_file = << >>
    /\ log_mode = "r"
    /\ index_file = << >>
    /\ hash_file = << >>
    /\ chain_file = save_chain(<< >>)
    /\ archives = << >>
    /\ archive_tmp = << >>
    /\ file_state = [index |-> "ok", hashes |-> "ok", chain |-> "ok"]
    /\ enable_blockchain \in BOOLEAN
    /\ now = 0
    /\ next_id = 0
    /\ ret = NoRet
    /\ tampered_at = -1
    /\ pc = [t \in Threads |-> "ready"]
    /\ loc = [t \in Threads |-> Locals0]
    /\ calls = [t \in Threads |-> 0]
    /\ backup_queue = << >>
    /\ bq_lock = 0
    /\ pool = << >>
    /\ executor_down = FALSE
    /\ cloud_blocks = {}
    /\ cloud_archives = {}
    /\ submitted = << >>
    /\ sd = [pc |-> "not_called", queue_copy |-> << >>]
    /\ last = NoLast

\* The state after ImmutableLogger(log_dir): enable_cloud_backup defaults to False.
Init ==
    /\ StoreInit
    /\ opts = [cloud |-> FALSE, async |-> TRUE, backend_fails |-> FALSE,
               enable_encryption |-> FALSE, tenantId |-> NoTenant, born |-> 0]

\* No writer thread has started: the caller is the only user of the logger.
Idle == \A t \in Threads : pc[t] = "ready" /\ calls[t] = 0

\* rotate(): copy the live log to the archive name, gzip it, remove the
\* copy, then empty the live log (chmod 644, write_text(''), chmod 444).
rotate(lines) ==
    /\ archives' = put_archive(archives, now, lines)
    /\ log_file' = << >>
    /\ log_mode' = "r"

\* log(level, message, metadata) by the one caller, start to return.
Log(level, message, metadata) ==
    LET entry == create_entry(level, message, metadata, next_id, now)
        data == json_dumps(entry)
        entry_hash == hash(data)
        block == new_block(chain, entry.timestamp, data, entry_hash)
        written == append_to_log(log_file, data)
    IN  /\ Idle
        /\ next_id < MaxEntries
        /\ next_id' = next_id + 1
        /\ IF enable_blockchain /\ ~is_valid_block(chain, block)
           THEN \* raise ValueError('Invalid block - blockchain verification failed')
                /\ ret' = [op |-> "log", success |-> FALSE, error |-> "ValueError"]
                /\ UNCHANGED <<chain, files>>
           ELSE /\ index_file' = Append(index_file,
                                        index_entry(entry, entry_hash, st_size(written)))
                /\ hash_file' = Append(hash_file, entry_hash)
                /\ chain' = Append(chain, block)
                /\ chain_file' = save_chain(chain')
                /\ IF check_rotation(written)
                   THEN rotate(written)
                   ELSE /\ log_file' = written
                        /\ log_mode' = "r"
                        /\ UNCHANGED archives
                /\ ret' = receipt(entry_hash, block)
        /\ UNCHANGED <<fs_aux, cloud_vars, enable_blockchain, now, tampered_at, thread_vars>>

\* verify() called by the one caller.
Verify ==
    /\ Idle
    /\ ret.op # "verify"
    /\ ret' = verify(chain, enable_blockchain)
    /\ UNCHANGED <<chain, files, fs_aux, cloud_vars, enable_blockchain, now, next_id, tampered_at,
                   thread_vars>>

\* Time passes: the next datetime.utcnow() reads a later value.
Tick ==
    /\ now < MaxClock
    /\ now' = now + 1
    /\ UNCHANGED <<chain, files, fs_aux, cloud_vars, enable_blockchain, next_id, ret, tampered_at,
                   thread_vars>>

Next ==
    \/ \E level \in Levels, message \in Messages, metadata \in Metadatas :
          Log(level, message, metadata)
    \/ Verify
    \/ Tick

Spec == Init /\ [][Next]_vars

\* ------------------------------------------------------ writer threads
\* test_concurrent_logging: each thread runs log_worker, a loop of
\* logger.info(...) inside one try block, so a call that raises ends the
\* thread.  Python switches threads between bytecodes and around system
\* calls, so each step below is one access of log() to shared state.

\* The call of thread t returns result r.
Return(t, r) ==
    /\ loc' = [loc EXCEPT ![t] = [Locals0 EXCEPT !.result = r]]
    /\ calls' = [calls EXCEPT ![t] = @ + 1]
    /\ pc' = [pc EXCEPT ![t] = IF calls[t] + 1 < CallsPerThread THEN "ready" ELSE "done"]

\* The call of thread t raises e; log_worker records it and the thread ends.
Raise(t, e) ==
    /\ loc' = [loc EXCEPT ![t] = [Locals0 EXCEPT !.error = e]]
    /\ calls' = [calls EXCEPT ![t] = @ + 1]
    /\ pc' = [pc EXCEPT ![t] = "done"]

Goto(t, label) == pc' = [pc EXCEPT ![t] = label] /\ UNCHANGED calls

\* Path.write_text opens the file with mode 'w', which truncates it, then
\* writes from offset 0.  A write that finds content another writer put
\* there after this writer's open replaces it if it is at least as long and
\* otherwise leaves the tail of the longer text behind it: not JSON any more.
\* Length is counted in list elements, all of one width in these runs.
written_text(state, content, mine) ==
    IF state = "empty" \/ Len(mine) >= Len(content) THEN mine ELSE content

written_state(state, content, mine) ==
    IF state = "empty" \/ Len(mine) >= Len(content) THEN "ok" ELSE "corrupt"

\* entry = self.create_entry(...); data = json.dumps(entry); entry_hash = self.hash(data)
T_create_entry(t) ==
    /\ pc[t] = "ready"
    /\ calls[t] < CallsPerThread
    /\ LET entry == create_entry("INFO", "a", EmptyMeta, next_id, now)
       IN  loc' = [loc EXCEPT ![t] = [Locals0 EXCEPT !.entry = entry,
                                                    !.data = json_dumps(entry),
                                                    !.entry_hash = hash(json_dumps(entry))]]
    /\ next_id' = next_id + 1
    /\ Goto(t, "read_len")
    /\ UNCHANGED <<chain, files, fs_aux, cloud_vars, enable_blockchain, now, ret, tampered_at>>

\* 'index': len(self.chain)
T_read_len(t) ==
    /\ pc[t] = "read_len"
    /\ loc' = [loc EXCEPT ![t].index = Len(chain)]
    /\ Goto(t, "read_last")
    /\ UNCHANGED <<chain, files, fs_aux, cloud_vars, enable_blockchain, now, next_id, ret, tampered_at>>

\* 'previousHash': self.chain[-1]['hash'] if self.chain else '0'
T_read_last(t) ==
    /\ pc[t] = "read_last"
    /\ loc' = [loc EXCEPT ![t].block =
                 [new_block(chain, loc[t].entry.timestamp, loc[t].data, loc[t].entry_hash)
                    EXCEPT !.index = loc[t].index]]
    /\ Goto(t, "validate")
    /\ UNCHANGED <<chain, files, fs_aux, cloud_vars, enable_blockchain, now, next_id, ret, tampered_at>>

\* The validation placed after append_to_log(): a call that raises has
\* already written its line.
T_validate_late(t) ==
    /\ pc[t] = "validate"
    /\ IF enable_blockchain /\ ~is_valid_block(chain, loc[t].block)
       THEN Raise(t, "ValueError") /\ log_file' = append_to_log(log_file, loc[t].data)
       ELSE Goto(t, "chmod_w") /\ UNCHANGED <<loc, log_file>>
    /\ UNCHANGED <<chain, log_mode, index_file, hash_file, chain_file, archives, fs_aux,
                   cloud_vars, enable_blockchain, now, next_id, ret, tampered_at>>

\* if self.enable_blockchain and not self.is_valid_block(block): raise ValueError
T_validate(t) ==
    /\ pc[t] = "validate"
    /\ IF enable_blockchain /\ ~is_valid_block(chain, loc[t].block)
       THEN Raise(t, "ValueError")
       ELSE Goto(t, "chmod_w") /\ UNCHANGED loc
    /\ UNCHANGED <<chain, files, fs_aux, cloud_vars, enable_blockchain, now, next_id, ret, tampered_at>>

\* append_to_log: os.chmod(self.log_file, 0o644)
T_chmod_w(t) ==
    /\ pc[t] = "chmod_w"
    /\ log_mode' = "rw"
    /\ Goto(t, "open")
    /\ UNCHANGED <<chain, log_file, index_file, hash_file, chain_file, archives, fs_aux,
                   cloud_vars, enable_blockchain, now, next_id, ret, tampered_at, loc>>

\* append_to_log: open(self.log_file, 'a'); the process is not privileged, so
\* opening a file without write permission raises PermissionError.
T_open(t) ==
    /\ pc[t] = "open"
    /\ IF log_mode = "rw"
       THEN Goto(t, "write") /\ UNCHANGED loc
       ELSE Raise(t, "PermissionError")
    /\ UNCHANGED <<chain, files, fs_aux, cloud_vars, enable_blockchain, now, next_id, ret, tampered_at>>

\* append_to_log: f.write(data), flushed when the with block closes the file
T_write(t) ==
    /\ pc[t] = "write"
    /\ log_file' = append_to_log(log_file, loc[t].data)
    /\ Goto(t, "chmod_r")
    /\ UNCHANGED <<chain, log_mode, index_file, hash_file, chain_file, archives, fs_aux,
                   cloud_vars, enable_blockchain, now, next_id, ret, tampered_at, loc>>

\* append_to_log: os.chmod(self.log_file, 0o444)
T_chmod_r(t) ==
    /\ pc[t] = "chmod_r"
    /\ log_mode' = "r"
    /\ Goto(t, "index_read")
    /\ UNCHANGED <<chain, log_file, index_file, hash_file, chain_file, archives, fs_aux,
                   cloud_vars, enable_blockchain, now, next_id, ret, tampered_at, loc>>

\* update_index: index = json.loads(self.index_file.read_text())
T_index_read(t) ==
    /\ pc[t] = "index_read"
    /\ IF file_state.index = "ok"
       THEN loc' = [loc EXCEPT ![t].index_copy = index_file] /\ Goto(t, "index_open")
       ELSE Raise(t, "JSONDecodeError")
    /\ UNCHANGED <<chain, files, fs_aux, cloud_vars, enable_blockchain, now, next_id, ret, tampered_at>>

\* update_index: the entry is appended to the copy (with the log file's
\* size as offset) and write_text opens the index file, truncating it
T_index_open(t) ==
    /\ pc[t] = "index_open"
    /\ loc' = [loc EXCEPT ![t].index_copy =
                 Append(@, index_entry(loc[t].entry, loc[t].entry_hash, st_size(log_file)))]
    /\ index_file' = << >>
    /\ file_state' = [file_state EXCEPT !.index = "empty"]
    /\ Goto(t, "index_write")
    /\ UNCHANGED <<chain, log_file, log_mode, hash_file, chain_file, archives, archive_tmp,
                   cloud_vars, enable_blockchain, now, next_id, ret, tampered_at>>

\* update_index: write_text writes the serialized copy
T_index_write(t) ==
    /\ pc[t] = "index_write"
    /\ index_file' = written_text(file_state.index, index_file, loc[t].index_copy)
    /\ file_state' = [file_state EXCEPT !.index =
                        written_state(@, index_file, loc[t].index_copy)]
    /\ Goto(t, "hashes_read")
    /\ UNCHANGED <<chain, log_file, log_mode, hash_file, chain_file, archives, archive_tmp,
                   cloud_vars, enable_blockchain, now, next_id, ret, tampered_at, loc>>

\* update_hash_chain: hashes = json.loads(self.hash_file.read_text())
T_hashes_read(t) ==
    /\ pc[t] = "hashes_read"
    /\ IF file_state.hashes = "ok"
       THEN loc' = [loc EXCEPT ![t].hashes_copy = hash_file] /\ Goto(t, "hashes_open")
       ELSE Raise(t, "JSONDecodeError")
    /\ UNCHANGED <<chain, files, fs_aux, cloud_vars, enable_blockchain, now, next_id, ret, tampered_at>>

\* update_hash_chain: the hash is appended to the copy and write_text opens
\* the hash file, truncating it
T_hashes_open(t) ==
    /\ pc[t] = "hashes_open"
    /\ loc' = [loc EXCEPT ![t].hashes_copy = Append(@, loc[t].entry_hash)]
    /\ hash_file' = << >>
    /\ file_state' = [file_state EXCEPT !.hashes = "empty"]
    /\ Goto(t, "hashes_write")
    /\ UNCHANGED <<chain, log_file, log_mode, index_file, chain_file, archives, archive_tmp,
                   cloud_vars, enable_blockchain, now, next_id, ret, tampered_at>>

\* update_hash_chain: write_text writes the serialized copy
T_hashes_write(t) ==
    /\ pc[t] = "hashes_write"
    /\ hash_file' = written_text(file_state.hashes, hash_file, loc[t].hashes_copy)
    /\ file_state' = [file_state EXCEPT !.hashes =
                        written_state(@, hash_file, loc[t].hashes_copy)]
    /\ Goto(t, "chain_append")
    /\ UNCHANGED <<chain, log_file, log_mode, index_file, chain_file, archives, archive_tmp,
                   cloud_vars, enable_blockchain, now, next_id, ret, tampered_at, loc>>

\* self.chain.append(block)
T_chain_append(t) ==
    /\ pc[t] = "chain_append"
    /\ chain' = Append(chain, loc[t].block)
    /\ Goto(t, "chain_dump")
    /\ UNCHANGED <<files, fs_aux, cloud_vars, enable_blockchain, now, next_id, ret, tampered_at, loc>>

\* save_chain: json.dumps(self.chain, indent=2)
T_chain_dump(t) ==
    /\ pc[t] = "chain_dump"
    /\ loc' = [loc EXCEPT ![t].chain_text = save_chain(chain)]
    /\ Goto(t, "chain_open")
    /\ UNCHANGED <<chain, files, fs_aux, cloud_vars, enable_blockchain, now, next_id, ret, tampered_at>>

\* save_chain: write_text opens the chain file, truncating it
T_chain_open(t) ==
    /\ pc[t] = "chain_open"
    /\ chain_file' = << >>
    /\ file_state' = [file_state EXCEPT !.chain = "empty"]
    /\ Goto(t, "chain_write")
    /\ UNCHANGED <<chain, log_file, log_mode, index_file, hash_file, archives, archive_tmp,
                   cloud_vars, enable_blockchain, now, next_id, ret, tampered_at, loc>>

\* save_chain: write_text writes the serialized chain
T_chain_write(t) ==
    /\ pc[t] = "chain_write"
    /\ chain_file' = written_text(file_state.chain, chain_file, loc[t].chain_text)
    /\ file_state' = [file_state EXCEPT !.chain =
                        written_state(@, chain_file, loc[t].chain_text)]
    /\ Goto(t, "check_rotation")
    /\ UNCHANGED <<chain, log_file, log_mode, index_file, hash_file, archives, archive_tmp,
                   cloud_vars, enable_blockchain, now, next_id, ret, tampered_at, loc>>

\* check_rotation: the size test; without rotation log() returns its receipt
T_check_rotation(t) ==
    /\ pc[t] = "check_rotation"
    /\ IF check_rotation(log_file)
       THEN Goto(t, "rot_copy") /\ UNCHANGED loc
       ELSE Return(t, receipt(loc[t].entry_hash, loc[t].block))
    /\ UNCHANGED <<chain, files, fs_aux, cloud_vars, enable_blockchain, now, next_id, ret, tampered_at>>

\* rotate: timestamp = utcnow(); shutil.copy2(self.log_file, archive_file).
\* copy2 gives the copy the permission bits of the live log; a copy left by
\* another thread under the same name cannot be opened for writing while
\* its bits are read-only.
T_rot_copy(t) ==
    /\ pc[t] = "rot_copy"
    /\ IF now \in DOMAIN archive_tmp /\ archive_tmp[now].mode = "r"
       THEN Raise(t, "PermissionError") /\ UNCHANGED archive_tmp
       ELSE /\ archive_tmp' =
                 [n \in DOMAIN archive_tmp \cup {now} |->
                    IF n = now THEN [content |-> log_file, mode |-> log_mode]
                               ELSE archive_tmp[n]]
            /\ loc' = [loc EXCEPT ![t].rot_ts = now]
            /\ Goto(t, "rot_gzip")
    /\ UNCHANGED <<chain, files, file_state, cloud_vars, enable_blockchain, now, next_id, ret,
                   tampered_at>>

\* rotate: the copy is read and written compressed to <archive_file>.gz
T_rot_gzip(t) ==
    /\ pc[t] = "rot_gzip"
    /\ IF loc[t].rot_ts \in DOMAIN archive_tmp
       THEN /\ archives' = put_archive(archives, loc[t].rot_ts,
                                       archive_tmp[loc[t].rot_ts].content)
            /\ Goto(t, "rot_unlink")
            /\ UNCHANGED loc
       ELSE Raise(t, "FileNotFoundError") /\ UNCHANGED archives
    /\ UNCHANGED <<chain, log_file, log_mode, index_file, hash_file, chain_file, fs_aux,
                   cloud_vars, enable_blockchain, now, next_id, ret, tampered_at>>

\* rotate: archive_file.unlink()
T_rot_unlink(t) ==
    /\ pc[t] = "rot_unlink"
    /\ IF loc[t].rot_ts \in DOMAIN archive_tmp
       THEN /\ archive_tmp' = [n \in DOMAIN archive_tmp \ {loc[t].rot_ts} |-> archive_tmp[n]]
            /\ Goto(t, "rot_chmod_w")
            /\ UNCHANGED loc
       ELSE Raise(t, "FileNotFoundError") /\ UNCHANGED archive_tmp
    /\ UNCHANGED <<chain, files, file_state, cloud_vars, enable_blockchain, now, next_id, ret,
                   tampered_at>>

\* rotate: os.chmod(self.log_file, 0o644)
T_rot_chmod_w(t) ==
    /\ pc[t] = "rot_chmod_w"
    /\ log_mode' = "rw"
    /\ Goto(t, "rot_truncate")
    /\ UNCHANGED <<chain, log_file, index_file, hash_file, chain_file, archives, fs_aux,
                   cloud_vars, enable_blockchain, now, next_id, ret, tampered_at, loc>>

\* rotate: self.log_file.write_text('')
T_rot_truncate(t) ==
    /\ pc[t] = "rot_truncate"
    /\ IF log_mode = "rw"
       THEN log_file' = << >> /\ Goto(t, "rot_chmod_r") /\ UNCHANGED loc
       ELSE Raise(t, "PermissionError") /\ UNCHANGED log_file
    /\ UNCHANGED <<chain, log_mode, index_file, hash_file, chain_file, archives, fs_aux,
                   cloud_vars, enable_blockchain, now, next_id, ret, tampered_at>>

\* rotate: os.chmod(self.log_file, 0o444); rotate and log() return
T_rot_chmod_r(t) ==
    /\ pc[t] = "rot_chmod_r"
    /\ log_mode' = "r"
    /\ Return(t, receipt(loc[t].entry_hash, loc[t].block))
    /\ UNCHANGED <<chain, log_file, index_file, hash_file, chain_file, archives, fs_aux,
                   cloud_vars, enable_blockchain, now, next_id, ret, tampered_at>>

\* All writer threads have ended: the t.join() calls have returned.
Joined == \A t \in Threads : pc[t] = "done"

\* logger.verify() after the joins.
VerifyAfterJoin ==
    /\ Joined
    /\ ret.op # "verify"
    /\ ret' = verify(chain, enable_blockchain)
    /\ UNCHANGED <<chain, files, fs_aux, cloud_vars, enable_blockchain, now, next_id, tampered_at,
                   thread_vars>>

Step(t) ==
    \/ T_create_entry(t)
    \/ T_read_len(t)
    \/ T_read_last(t)
    \/ T_validate(t)
    \/ T_chmod_w(t)
    \/ T_open(t)
    \/ T_write(t)
    \/ T_chmod_r(t)
    \/ T_index_read(t)
    \/ T_index_open(t)
    \/ T_index_write(t)
    \/ T_hashes_read(t)
    \/ T_hashes_open(t)
    \/ T_hashes_write(t)
    \/ T_chain_append(t)
    \/ T_chain_dump(t)
    \/ T_chain_open(t)
    \/ T_chain_write(t)
    \/ T_check_rotation(t)
    \/ T_rot_copy(t)
    \/ T_rot_gzip(t)
    \/ T_rot_unlink(t)
    \/ T_rot_chmod_w(t)
    \/ T_rot_truncate(t)
    \/ T_rot_chmod_r(t)

NextConc ==
    \/ \E t \in Threads : Step(t)
    \/ VerifyAfterJoin
    \/ Tick

SpecConc == Init /\ [][NextConc]_vars

\* ------------------------------------------------- tampering (test harness)

Tampered == <<"TAMPERED">>

\* test_tamper_detection: logger.chain[j]['data'] = d with d another value.
Tamper(j, d) ==
    /\ tampered_at = -1
    /\ Idle
    /\ j \in 0..(Len(chain) - 1)
    /\ d # chain[j + 1].data
    /\ chain' = [chain EXCEPT ![j + 1].data = d]
    /\ tampered_at' = j
    /\ ret' = NoRet
    /\ UNCHANGED <<files, fs_aux, cloud_vars, enable_blockchain, now, next_id, thread_vars>>

NextTamper ==
    \/ Next
    \/ \E j \in 0..(MaxEntries - 1) :
         \E d \in {Tampered} \cup {chain[k].data : k \in 1..Len(chain)} : Tamper(j, d)

SpecTamper == Init /\ [][NextTamper]_vars

\* ------------------------------- faults and cloud backup, one caller
\* log() when a statement of update_index() or rotate() can raise (the disk
\* is full, a file cannot be opened) and when the cloud backup is enabled
\* with a provider whose calls return True or False.

\* Where a call can raise: nowhere, in update_index() before it writes, in
\* shutil.copy2, in gzip.open, or in shutil.copyfileobj into the .gz file.
Faults == {"none", "index", "copy", "gzip_open", "gzip_write"}

\* f"blocks/{block['hash']}.json"
block_key(block) == <<"blocks", block.hash>>

\* f"archives/{archive_file.name}.gz"
archive_key(ts) == <<"archives", ts>>

\* The (block, key) tuple backup_to_cloud() appends to the queue.
task(block) == [block |-> block, key |-> block_key(block)]

\* The .gz file when copyfileobj raises part way: the head of the content.
partial_gzip(content) == <<"gzip", SubSeq(content, 1, Len(content) - 1), "truncated">>

RemoveAt(s, i) == SubSeq(s, 1, i - 1) \o SubSeq(s, i + 1, Len(s))

\* upload_batch has not reached its print statement.
NotReported == -1

\* A batch as executor.submit(upload_batch) receives it: queue_copy, with
\* success_count = 0; results are the values upload_block has returned so far
\* and reported is the count upload_batch prints when its loop has ended.
new_batch(by, tasks) ==
    [by |-> by, tasks |-> tasks, results |-> << >>, success_count |-> 0,
     reported |-> NotReported]

\* upload_batch that counts every upload_block call.
count_upload_attempts(success_count, ok) == success_count + 1

\* if self.cloud.upload_block(block, key): success_count += 1
count_upload(success_count, ok) == IF ok THEN success_count + 1 ELSE success_count

\* backup_to_cloud in synchronous mode with the result of upload_block raised.
backup_outcome_raising(ok) == IF ok THEN "returned" ELSE "raised"

\* backup_to_cloud() in synchronous mode: upload_block's result only decides
\* whether a line is printed, and the function returns None either way.
backup_outcome(ok) == "returned"

\* self.chain.append(block) on a list that keeps only its two newest items.
chain_append_capped(ch, block) ==
    IF Len(ch) >= 2 THEN <<Last(ch), block>> ELSE Append(ch, block)

\* self.chain.append(block)
chain_append(ch, block) == Append(ch, block)

\* rotate() with the truncation in a finally clause.
live_log_after_finally(lines, outcome) == << >>

\* rotate(): the content of the live log when rotate() has ended, by the
\* statement that ended it.  Only a rotate() that ran to its end reaches
\* write_text('').
live_log_after(lines, outcome) == IF outcome = "done" THEN << >> ELSE lines

\* rotate(): the statement that ends it.  blocked: the archive name holds a
\* read-only copy, so copy2 cannot open it.
rotate_outcome(fault, blocked) ==
    IF fault = "copy" \/ blocked THEN "copy_failed"
    ELSE IF fault \in {"gzip_open", "gzip_write"} THEN "gzip_failed"
    ELSE "done"

\* log(level, message, metadata) by the one caller, start to return or raise.
\* fault: where the call raises; up_ok: what upload_block returns in
\* synchronous mode; arch_ok: what upload_file returns in rotate().
LogEnv(level, message, metadata, fault, up_ok, arch_ok) ==
    LET entry == create_entry(level, message, metadata, next_id, now)
        data == json_dumps(entry)
        entry_hash == hash(data)
        block == new_block(chain, entry.timestamp, data, entry_hash)
        written == append_to_log(log_file, data)
        sync == opts.cloud /\ ~opts.async
        async == opts.cloud /\ opts.async
        queued == Append(backup_queue, task(block))
        flushed == async /\ Len(queued) >= BatchSize
        backup_raised == sync /\ backup_outcome(up_ok) = "raised"
        must_rotate == ~backup_raised /\ check_rotation(written)
        blocked == now \in DOMAIN archive_tmp /\ archive_tmp[now].mode = "r"
        outcome == IF must_rotate THEN rotate_outcome(fault, blocked) ELSE "none"
        uploads_archive == outcome = "done" /\ opts.cloud
    IN  /\ Idle
        /\ sd.pc = "not_called"
        /\ next_id < EnvCalls
        /\ fault \in {"copy", "gzip_open", "gzip_write"} => must_rotate
        /\ ~up_ok => sync /\ opts.backend_fails /\ fault \notin {"index", "write"}
        /\ ~arch_ok => uploads_archive /\ opts.backend_fails
        /\ next_id' = next_id + 1
        /\ IF enable_blockchain /\ ~is_valid_block(chain, block)
           THEN \* raise ValueError('Invalid block - blockchain verification failed')
                /\ ret' = [op |-> "log", success |-> FALSE, error |-> "ValueError"]
                /\ last' = [op |-> "log", id |-> entry.id, stage |-> "validation",
                            rotation |-> "none", upload |-> "none", archive_upload |-> "none"]
                /\ UNCHANGED <<chain, files, archive_tmp, backup_queue, pool, submitted,
                               cloud_blocks, cloud_archives>>
           ELSE IF fault = "write"
           THEN \* append_to_log(): f.write raises after os.chmod(self.log_file, 0o644)
                /\ log_mode' = "rw"
                /\ ret' = [op |-> "log", success |-> FALSE, error |-> "OSError"]
                /\ last' = [op |-> "log", id |-> entry.id, stage |-> "append_to_log",
                            rotation |-> "none", upload |-> "none", archive_upload |-> "none"]
                /\ UNCHANGED <<chain, log_file, index_file, hash_file, chain_file, archives,
                               archive_tmp, backup_queue, pool, submitted, cloud_blocks,
                               cloud_archives>>
           ELSE IF fault = "index"
           THEN \* update_index() raises after append_to_log() has returned
                /\ log_file' = written
                /\ log_mode' = "r"
                /\ ret' = [op |-> "log", success |-> FALSE, error |-> "OSError"]
                /\ last' = [op |-> "log", id |-> entry.id, stage |-> "update_index",
                            rotation |-> "none", upload |-> "none", archive_upload |-> "none"]
                /\ UNCHANGED <<chain, index_file, hash_file, chain_file, archives,
                               archive_tmp, backup_queue, pool, submitted, cloud_blocks,
                               cloud_archives>>
           ELSE /\ index_file' = Append(index_file,
                                        index_entry(entry, entry_hash, st_size(written)))
                /\ hash_file' = Append(hash_file, entry_hash)
                /\ chain' = chain_append(chain, block)
                /\ chain_file' = save_chain(chain')
                \* backup_to_cloud(block)
                /\ backup_queue' = IF flushed THEN << >>
                                   ELSE IF async THEN queued ELSE backup_queue
                /\ pool' = IF flushed THEN Append(pool, queued) ELSE pool
                /\ submitted' = IF flushed
                                THEN Append(submitted, new_batch("log", queued))
                                ELSE submitted
                /\ cloud_blocks' = IF sync /\ up_ok
                                   THEN cloud_blocks \cup {block_key(block)}
                                   ELSE cloud_blocks
                \* check_rotation()
                /\ log_file' = IF must_rotate THEN live_log_after(written, outcome)
                               ELSE written
                /\ log_mode' = "r"
                /\ archive_tmp' =
                      IF outcome = "gzip_failed"
                      THEN [n \in DOMAIN archive_tmp \cup {now} |->
                              IF n = now THEN [content |-> written, mode |-> "r"]
                                         ELSE archive_tmp[n]]
                      ELSE archive_tmp
                /\ archives' =
                      IF outcome = "done" THEN put_archive(archives, now, written)
                      ELSE IF outcome = "gzip_failed" /\ fault = "gzip_write"
                           THEN [n \in DOMAIN archives \cup {now} |->
                                   IF n = now THEN partial_gzip(written) ELSE archives[n]]
                           ELSE archives
                /\ cloud_archives' = IF uploads_archive /\ arch_ok
                                     THEN cloud_archives \cup {archive_key(now)}
                                     ELSE cloud_archives
                /\ ret' = IF backup_raised \/ outcome \in {"copy_failed", "gzip_failed"}
                          THEN [op |-> "log", success |-> FALSE, error |-> "OSError"]
                          ELSE receipt(entry_hash, block)
                /\ last' = [op |-> "log", id |-> entry.id, stage |-> "committed",
                            rotation |-> outcome,
                            upload |-> IF sync THEN (IF up_ok THEN "ok" ELSE "failed")
                                       ELSE IF async THEN "queued" ELSE "none",
                            archive_upload |-> IF uploads_archive
                                               THEN (IF arch_ok THEN "ok" ELSE "failed")
                                               ELSE "none"]
        /\ UNCHANGED <<file_state, opts, bq_lock, executor_down, sd, enable_blockchain,
                       now, tampered_at, thread_vars>>

\* A logger with the default options on a machine whose disk can fail.
NextFault ==
    \/ \E message \in Messages, fault \in Faults :
          LogEnv("INFO", message, EmptyMeta, fault, TRUE, TRUE)
    \/ Tick

SpecFault == Init /\ [][NextFault]_vars

\* What the store itself holds: untouched by the executor and by shutdown().
store_vars == <<chain, files, fs_aux, enable_blockchain, now, next_id, ret, tampered_at>>

\* The batches whose upload_batch is waiting or running: those in the pool,
\* in the order of their submission.
Unfinished == {k \in DOMAIN submitted : submitted[k].reported = NotReported}

\* The submitted batch that is the work item at position i of the pool.
batch_of(i) ==
    CHOOSE k \in Unfinished : Cardinality({j \in Unfinished : j < k}) = i - 1

\* A worker thread of the executor runs upload_batch one upload_block call at
\* a time; the work item at position i <= max_workers has a thread.  ok is
\* what upload_block returns.
W_run(i, ok) ==
    /\ i \in 1..Len(pool)
    /\ i <= PoolWorkers
    /\ ok \/ opts.backend_fails
    /\ LET k == batch_of(i)
           count == count_upload(submitted[k].success_count, ok)
       IN  IF pool[i] = << >>
           THEN /\ ok
                /\ pool' = RemoveAt(pool, i)
                /\ submitted' = [submitted EXCEPT ![k].reported = submitted[k].success_count]
                /\ UNCHANGED cloud_blocks
           ELSE /\ cloud_blocks' = IF ok THEN cloud_blocks \cup {Head(pool[i]).key}
                                   ELSE cloud_blocks
                /\ pool' = IF Tail(pool[i]) = << >> THEN RemoveAt(pool, i)
                           ELSE [pool EXCEPT ![i] = Tail(pool[i])]
                /\ submitted' =
                      [submitted EXCEPT
                          ![k].results = Append(@, ok),
                          ![k].success_count = count,
                          ![k].reported = IF Tail(pool[i]) = << >> THEN count
                                          ELSE NotReported]
    /\ UNCHANGED <<store_vars, thread_vars, opts, backup_queue, bq_lock, executor_down,
                   cloud_archives, sd, last>>

\* shutdown(): if self.enable_cloud_backup and self.backup_queue: ... else return
S_call ==
    /\ sd.pc = "not_called"
    /\ sd' = [sd EXCEPT !.pc = IF opts.cloud /\ backup_queue # << >>
                                THEN "flush_check" ELSE "returned"]
    /\ UNCHANGED <<store_vars, thread_vars, opts, backup_queue, bq_lock, pool,
                   executor_down, cloud_blocks, cloud_archives, submitted, last>>

\* _flush_backup_queue() called by shutdown(): if not self.backup_queue: return
S_flush_check ==
    /\ sd.pc = "flush_check"
    /\ sd' = [sd EXCEPT !.pc = IF backup_queue = << >> THEN "exec_shutdown"
                                ELSE "flush_copy"]
    /\ UNCHANGED <<store_vars, thread_vars, opts, backup_queue, bq_lock, pool,
                   executor_down, cloud_blocks, cloud_archives, submitted, last>>

\* queue_copy = self.backup_queue.copy()
S_flush_copy ==
    /\ sd.pc = "flush_copy"
    /\ sd' = [pc |-> "flush_clear", queue_copy |-> backup_queue]
    /\ UNCHANGED <<store_vars, thread_vars, opts, backup_queue, bq_lock, pool,
                   executor_down, cloud_blocks, cloud_archives, submitted, last>>

\* self.backup_queue.clear()
S_flush_clear ==
    /\ sd.pc = "flush_clear"
    /\ backup_queue' = << >>
    /\ sd' = [sd EXCEPT !.pc = "flush_submit"]
    /\ UNCHANGED <<store_vars, thread_vars, opts, bq_lock, pool, executor_down,
                   cloud_blocks, cloud_archives, submitted, last>>

\* self.executor.submit(upload_batch)
S_flush_submit ==
    /\ sd.pc = "flush_submit"
    /\ pool' = Append(pool, sd.queue_copy)
    /\ submitted' = Append(submitted, new_batch("shutdown", sd.queue_copy))
    /\ sd' = [pc |-> "exec_shutdown", queue_copy |-> << >>]
    /\ UNCHANGED <<store_vars, thread_vars, opts, backup_queue, bq_lock, executor_down,
                   cloud_blocks, cloud_archives, last>>

\* self.executor.shutdown(wait=True): no further submit is accepted
S_exec_shutdown ==
    /\ sd.pc = "exec_shutdown"
    /\ executor_down' = TRUE
    /\ sd' = [sd EXCEPT !.pc = "waiting"]
    /\ UNCHANGED <<store_vars, thread_vars, opts, backup_queue, bq_lock, pool,
                   cloud_blocks, cloud_archives, submitted, last>>

\* executor.shutdown(wait=True) returns once every work item has finished,
\* and shutdown() returns.
S_return ==
    /\ sd.pc = "waiting"
    /\ pool = << >>
    /\ sd' = [sd EXCEPT !.pc = "returned"]
    /\ UNCHANGED <<store_vars, thread_vars, opts, backup_queue, bq_lock, pool,
                   executor_down, cloud_blocks, cloud_archives, submitted, last>>

Shutdown ==
    \/ S_call
    \/ S_flush_check
    \/ S_flush_copy
    \/ S_flush_clear
    \/ S_flush_submit
    \/ S_exec_shutdown
    \/ S_return

\* ImmutableLogger(log_dir, {'enable_cloud_backup': True, 'backup_provider': p,
\* 'backup_async': a}) with a provider whose uploads always succeed or can fail.
InitCloud ==
    /\ StoreInit
    /\ opts \in [cloud : {TRUE}, async : BOOLEAN, backend_fails : BOOLEAN,
                enable_encryption : {FALSE}, tenantId : {NoTenant}, born : {0}]

\* One caller that logs and then shuts the logger down, and the executor.
NextCloud ==
    \/ \E message \in Messages, up_ok \in BOOLEAN, arch_ok \in BOOLEAN :
          LogEnv("INFO", message, EmptyMeta, "none", up_ok, arch_ok)
    \/ \E i \in 1..PoolWorkers, ok \in BOOLEAN : W_run(i, ok)
    \/ Shutdown
    \/ Tick

SpecCloud == InitCloud /\ [][NextCloud]_vars

\* --------------------------------- the backup queue under several threads
\* Threads inside log() with the cloud backup enabled, the caller of
\* shutdown() and the executor's workers.  Each access of backup_to_cloud()
\* and _flush_backup_queue() to the queue or the executor is a step of its
\* own.  The statements of log() before backup_to_cloud() are taken in one
\* step together with the entry into the with block, and check_rotation() in
\* one step together with the exit from it: the interleavings of those
\* statements with each other are those of SpecConc.

\* _flush_backup_queue with upload_batch() called in place of executor.submit.
handoff_inline(batch) == [to_pool |-> << >>, inline |-> batch]

\* _flush_backup_queue(): executor.submit(upload_batch) gives the batch to
\* the executor and returns; the calling thread uploads nothing itself.
handoff(batch) == [to_pool |-> <<batch>>, inline |-> << >>]

\* The keys of the tasks of a batch.
Keys(batch) == {batch[k].key : k \in 1..Len(batch)}

\* log() up to and including save_chain(), then backup_to_cloud() up to the
\* upload call (synchronous mode) or into the with self.backup_lock block.
Q_log(t) ==
    LET entry == create_entry("INFO", "a", EmptyMeta, next_id, now)
        data == json_dumps(entry)
        entry_hash == hash(data)
        block == new_block(chain, entry.timestamp, data, entry_hash)
        written == append_to_log(log_file, data)
    IN  /\ pc[t] = "ready"
        /\ calls[t] < CallsPerThread
        /\ next_id < EnvCalls
        /\ opts.async => bq_lock = 0
        /\ next_id' = next_id + 1
        /\ IF enable_blockchain /\ ~is_valid_block(chain, block)
           THEN Raise(t, "ValueError") /\ UNCHANGED <<chain, files, bq_lock>>
           ELSE /\ log_file' = written
                /\ log_mode' = "r"
                /\ index_file' = Append(index_file,
                                        index_entry(entry, entry_hash, st_size(written)))
                /\ hash_file' = Append(hash_file, entry_hash)
                /\ chain' = Append(chain, block)
                /\ chain_file' = save_chain(chain')
                /\ loc' = [loc EXCEPT ![t] = [Locals0 EXCEPT !.entry = entry,
                                                             !.data = data,
                                                             !.entry_hash = entry_hash,
                                                             !.block = block]]
                /\ bq_lock' = IF opts.async THEN t ELSE bq_lock
                /\ Goto(t, IF opts.async THEN "bq_append" ELSE "bq_sync")
                /\ UNCHANGED archives
        /\ UNCHANGED <<fs_aux, enable_blockchain, now, ret, tampered_at, opts, backup_queue,
                       pool, executor_down, cloud_blocks, cloud_archives, submitted, sd,
                       last>>

\* self.check_rotation() and the return of log().
finish(t) ==
    /\ IF check_rotation(log_file)
       THEN /\ rotate(log_file)
            /\ cloud_archives' = cloud_archives \cup {archive_key(now)}
       ELSE UNCHANGED <<log_file, log_mode, archives, cloud_archives>>
    /\ Return(t, receipt(loc[t].entry_hash, loc[t].block))
    /\ UNCHANGED <<chain, index_file, hash_file, chain_file, fs_aux, enable_blockchain, now,
                   next_id, ret, tampered_at>>

\* success = self.cloud.upload_block(block, key) in the calling thread, then
\* the rest of log().
Q_sync_upload(t, ok) ==
    /\ pc[t] = "bq_sync"
    /\ ok \/ opts.backend_fails
    /\ cloud_blocks' = IF ok THEN cloud_blocks \cup {block_key(loc[t].block)}
                       ELSE cloud_blocks
    /\ finish(t)
    /\ UNCHANGED <<opts, backup_queue, bq_lock, pool, executor_down, submitted, sd, last>>

\* self.backup_queue.append((block, key))
Q_append(t) ==
    /\ pc[t] = "bq_append"
    /\ backup_queue' = Append(backup_queue, task(loc[t].block))
    /\ Goto(t, "bq_len")
    /\ UNCHANGED <<store_vars, loc, opts, bq_lock, pool, executor_down, cloud_blocks,
                   cloud_archives, submitted, sd, last>>

\* if len(self.backup_queue) >= self.backup_batch_size: self._flush_backup_queue()
Q_len(t) ==
    /\ pc[t] = "bq_len"
    /\ Goto(t, IF Len(backup_queue) >= BatchSize THEN "fl_check" ELSE "bq_release")
    /\ UNCHANGED <<store_vars, loc, cloud_vars>>

\* _flush_backup_queue: if not self.backup_queue: return
Q_fl_check(t) ==
    /\ pc[t] = "fl_check"
    /\ Goto(t, IF backup_queue = << >> THEN "bq_release" ELSE "fl_copy")
    /\ UNCHANGED <<store_vars, loc, cloud_vars>>

\* queue_copy = self.backup_queue.copy()
Q_fl_copy(t) ==
    /\ pc[t] = "fl_copy"
    /\ loc' = [loc EXCEPT ![t].queue_copy = backup_queue]
    /\ Goto(t, "fl_clear")
    /\ UNCHANGED <<store_vars, cloud_vars>>

\* self.backup_queue.clear()
Q_fl_clear(t) ==
    /\ pc[t] = "fl_clear"
    /\ backup_queue' = << >>
    /\ Goto(t, "fl_submit")
    /\ UNCHANGED <<store_vars, loc, opts, bq_lock, pool, executor_down, cloud_blocks,
                   cloud_archives, submitted, sd, last>>

\* self.executor.submit(upload_batch): raises RuntimeError once the executor
\* was shut down, and the with statement releases the lock on the way out.
Q_fl_submit(t) ==
    /\ pc[t] = "fl_submit"
    /\ IF executor_down
       THEN /\ Raise(t, "RuntimeError")
            /\ bq_lock' = 0
            /\ UNCHANGED <<pool, submitted, cloud_blocks>>
       ELSE /\ pool' = pool \o handoff(loc[t].queue_copy).to_pool
            /\ cloud_blocks' = cloud_blocks \cup Keys(handoff(loc[t].queue_copy).inline)
            /\ submitted' = Append(submitted, new_batch("log", loc[t].queue_copy))
            /\ loc' = [loc EXCEPT ![t].queue_copy = << >>]
            /\ Goto(t, "bq_release")
            /\ UNCHANGED bq_lock
    /\ UNCHANGED <<store_vars, opts, backup_queue, executor_down, cloud_archives, sd, last>>

\* with self.backup_lock: (exit), then the rest of log().
Q_release(t) ==
    /\ pc[t] = "bq_release"
    /\ bq_lock' = 0
    /\ finish(t)
    /\ UNCHANGED <<opts, backup_queue, pool, executor_down, cloud_blocks, submitted, sd,
                   last>>

QStep(t) ==
    \/ Q_log(t)
    \/ \E ok \in BOOLEAN : Q_sync_upload(t, ok)
    \/ Q_append(t)
    \/ Q_len(t)
    \/ Q_fl_check(t)
    \/ Q_fl_copy(t)
    \/ Q_fl_clear(t)
    \/ Q_fl_submit(t)
    \/ Q_release(t)

\* The cloud backup enabled, in either mode, with a backend that stores
\* every block it is given; enable_blockchain at its default.
InitQueue ==
    /\ StoreInit
    /\ enable_blockchain = TRUE
    /\ opts \in [cloud : {TRUE}, async : BOOLEAN, backend_fails : {FALSE},
                enable_encryption : {FALSE}, tenantId : {NoTenant}, born : {0}]

NextQueue ==
    \/ \E t \in Threads : QStep(t)
    \/ \E i \in 1..PoolWorkers, ok \in BOOLEAN : W_run(i, ok)
    \/ Shutdown

SpecQueue == InitQueue /\ [][NextQueue]_vars

\* ------------------------------------------------------------------ read()

\* level=None, start_date=None, end_date=None: the filter is skipped.
NoLevel == ""
NoDate == -1

\* s[-limit:] of a Python list: a negative start counts from the end and is
\* clamped to 0; a start of 0 (limit = 0) or more counts from the front.
py_tail(seq, limit) ==
    LET k == 0 - limit
        start == IF k < 0
                 THEN (IF Len(seq) + k > 0 THEN Len(seq) + k ELSE 0)
                 ELSE (IF k < Len(seq) THEN k ELSE Len(seq))
    IN  SubSeq(seq, start + 1, Len(seq))

\* next((i for i, b in enumerate(self.chain) if b['timestamp'] == ts), None):
\* the position of the first block with that timestamp, -1 for None.
first_block_at(ch, ts) ==
    IF \E i \in 1..Len(ch) : ch[i].timestamp = ts
    THEN Min({i \in 1..Len(ch) : ch[i].timestamp = ts}) - 1
    ELSE -1

\* read(): the index entries left by the filters and by entries[-limit:].
select_entries(entries, limit, level, start_date, end_date) ==
    LET HasLevel(e) == e.level = level
        NotBefore(e) == e.timestamp >= start_date
        NotAfter(e) == e.timestamp <= end_date
        by_level == IF level # NoLevel THEN SelectSeq(entries, HasLevel) ELSE entries
        from_start == IF start_date # NoDate THEN SelectSeq(by_level, NotBefore)
                      ELSE by_level
        to_end == IF end_date # NoDate THEN SelectSeq(from_start, NotAfter)
                  ELSE from_start
    IN  py_tail(to_end, limit)

\* read(limit, level, start_date, end_date): the list returned.
read(entries, ch, limit, level, start_date, end_date) ==
    LET Found(e) == first_block_at(ch, e.timestamp) # -1
        selected == SelectSeq(select_entries(entries, limit, level, start_date, end_date),
                              Found)
    IN  [k \in 1..Len(selected) |->
            json_loads(ch[first_block_at(ch, selected[k].timestamp) + 1].data)]

\* logger.read(...) by the one caller; index.json is read from the disk.
Read(limit, level, start_date, end_date) ==
    /\ Idle
    /\ ret.op # "read"
    /\ ret' = [op |-> "read", limit |-> limit, level |-> level,
               start_date |-> start_date, end_date |-> end_date,
               logs |-> read(index_file, chain, limit, level, start_date, end_date)]
    /\ UNCHANGED <<chain, files, fs_aux, cloud_vars, enable_blockchain, now, next_id,
                   tampered_at, thread_vars>>

\* The limit search() passes to read().
SearchLimit == 10000

\* The words searched for: none of them is part of a key or of another value
\* of a serialized entry, so a word occurs in a text exactly when it is one of
\* the text's values, compared in lower case.
Queries == {"info", "ERROR", "xyz"}

\* str.lower() on the strings that occur.
lower(str) ==
    CASE str = "INFO" -> "info"
      [] str = "ERROR" -> "error"
      [] OTHER -> str

\* query.lower() in json.dumps(log).lower()
contains_ci(log, query) ==
    lower(query) \in {lower(log.level), lower(log.message), lower(log.hostname),
                     lower(log.pid)}

\* search(query): the list returned.
search(entries, ch, query) ==
    LET Matches(log) == contains_ci(log, query)
    IN  SelectSeq(read(entries, ch, SearchLimit, NoLevel, NoDate, NoDate), Matches)

\* logger.search(query) by the one caller.
Search(query) ==
    /\ Idle
    /\ ret.op \notin {"read", "search"}
    /\ ret' = [op |-> "search", query |-> query,
               logs |-> search(index_file, chain, query)]
    /\ UNCHANGED <<chain, files, fs_aux, cloud_vars, enable_blockchain, now, next_id,
                   tampered_at, thread_vars>>

\* One caller that logs entries of either level, reads and searches.
NextRead ==
    \/ \E level \in Levels : LogEnv(level, "a", EmptyMeta, "none", TRUE, TRUE)
    \/ \E query \in Queries : Search(query)
    \/ \E limit \in 0..MaxLimit, level \in Levels \cup {NoLevel},
          start_date \in {NoDate} \cup 0..MaxClock, end_date \in {NoDate} \cup 0..MaxClock :
          Read(limit, level, start_date, end_date)
    \/ Tick

\* The default options.
InitRead ==
    /\ Init
    /\ enable_blockchain = TRUE

SpecRead == InitRead /\ [][NextRead]_vars

\* -------------------------------------------- the administrative calls

\* verify_cloud_backup(): the dict returned.  list_blocks('blocks/') lists
\* the stored keys and download_block(key) returns None for a key that is
\* not stored.  sync_percentage is given as the fraction <<synced, local>>.
verify_cloud_backup(ch, cloud, remote) ==
    IF ~cloud
    THEN [op |-> "verify_cloud_backup", error |-> "Cloud backup not enabled"]
    ELSE LET Missing(b) == block_key(b) \notin remote
             missing_blocks == SelectSeq(ch, Missing)
             missing == [k \in 1..Len(missing_blocks) |-> missing_blocks[k].index]
         IN  [op |-> "verify_cloud_backup",
              local_blocks |-> Len(ch),
              cloud_blocks |-> Cardinality(remote),
              missing_blocks |-> missing,
              sync_status |-> IF missing = << >> THEN "synced" ELSE "out_of_sync",
              sync_percentage |-> IF Len(ch) > 0 THEN <<Len(ch) - Len(missing), Len(ch)>>
                                  ELSE <<0, 1>>]

\* stats(): the dict returned; None is NoDate.
stats(entries, lines, ch, blockchain, cloud, remote) ==
    LET OfLevel(l) == {k \in 1..Len(entries) : entries[k].level = l}
        seen == {entries[k].level : k \in 1..Len(entries)}
    IN  [op |-> "stats",
         totalEntries |-> Len(entries),
         fileSize |-> st_size(lines),
         blockchainLength |-> Len(ch),
         levels |-> [l \in seen |-> Cardinality(OfLevel(l))],
         verified |-> verify(ch, blockchain).ok,
         oldestEntry |-> IF entries # << >> THEN entries[1].timestamp ELSE NoDate,
         newestEntry |-> IF entries # << >> THEN Last(entries).timestamp ELSE NoDate,
         cloudBackupEnabled |-> cloud,
         cloudBackup |-> IF cloud THEN verify_cloud_backup(ch, cloud, remote)
                         ELSE [op |-> "none"]]

\* logger.stats() by the one caller.
Stats ==
    /\ Idle
    /\ ret.op # "stats"
    /\ ret' = stats(index_file, log_file, chain, enable_blockchain, opts.cloud, cloud_blocks)
    /\ UNCHANGED <<chain, files, fs_aux, cloud_vars, enable_blockchain, now, next_id,
                   tampered_at, thread_vars>>

\* verify_cloud_backup that puts the missing blocks back on the backup queue.
VerifyCloudBackup_requeue ==
    /\ Idle
    /\ ret.op # "verify_cloud_backup"
    /\ ret' = verify_cloud_backup(chain, opts.cloud, cloud_blocks)
    /\ backup_queue' = backup_queue \o
          [k \in 1..Len(ret'.missing_blocks) |-> task(chain[ret'.missing_blocks[k] + 1])]
    /\ UNCHANGED <<chain, files, fs_aux, enable_blockchain, now, next_id, tampered_at,
                   thread_vars, opts, bq_lock, pool, executor_down, cloud_blocks,
                   cloud_archives, submitted, sd, last>>

\* logger.verify_cloud_backup() by the one caller.
VerifyCloudBackup ==
    /\ Idle
    /\ ret.op # "verify_cloud_backup"
    /\ ret' = verify_cloud_backup(chain, opts.cloud, cloud_blocks)
    /\ UNCHANGED <<chain, files, fs_aux, cloud_vars, enable_blockchain, now, next_id,
                   tampered_at, thread_vars>>

\* The caller is not inside shutdown().
CallerFree == sd.pc \in {"not_called", "returned"}

\* Cloud backup enabled in either mode with a backend that stores what it is
\* given; enable_blockchain at its default.
InitAdmin ==
    /\ StoreInit
    /\ enable_blockchain = TRUE
    /\ opts \in [cloud : {TRUE}, async : BOOLEAN, backend_fails : {FALSE},
                enable_encryption : {FALSE}, tenantId : {NoTenant}, born : {0}]

\* One caller that logs, calls the administrative operations and shuts the
\* logger down, and the executor.
NextAdmin ==
    \/ LogEnv("INFO", "a", EmptyMeta, "none", TRUE, TRUE)
    \/ \E i \in 1..PoolWorkers : W_run(i, TRUE)
    \/ Shutdown
    \/ CallerFree /\ Verify
    \/ CallerFree /\ \E limit \in 0..MaxLimit, level \in {NoLevel, "INFO"} :
                        Read(limit, level, NoDate, NoDate)
    \/ CallerFree /\ \E query \in Queries : Search(query)
    \/ CallerFree /\ Stats
    \/ CallerFree /\ VerifyCloudBackup

SpecAdmin == InitAdmin /\ [][NextAdmin]_vars

\* ------------------------------------------------------------- claims

\* C1: after any sequence of log() calls made one at a time on a store that
\* started empty, every block i >= 1 has previousHash equal to the hash of
\* block i-1 and hash equal to the digest of its own data, and block 0
\* carries the genesis sentinel as previousHash.
C1_HashChain ==
    /\ \A i \in 2..Len(chain) :
          /\ chain[i].previousHash = chain[i - 1].hash
          /\ chain[i].hash = hash(chain[i].data)
    /\ Len(chain) >= 1 => chain[1].previousHash = Genesis

C1_Witness == Len(chain) >= 3 /\ enable_blockchain = FALSE

\* C2 (as claimed, for the configuration of the test, enable_blockchain on):
\* after chain[j].data was replaced by a different value, for any j
\* including 0, verify() reports failure and names j as the first bad index.
C2_TamperDetected ==
    (enable_blockchain /\ tampered_at # -1 /\ ret.op = "verify")
        => (ret.ok = FALSE /\ ret.first_bad = tampered_at)

\* The statements of log() from the first read of the chain for the new
\* block to the end of save_chain.
CriticalSection ==
    {"read_last", "validate", "chmod_w", "open", "write", "chmod_r",
     "index_read", "index_open", "index_write",
     "hashes_read", "hashes_open", "hashes_write",
     "chain_append", "chain_dump", "chain_open", "chain_write"}

\* C3 (as claimed): once M threads that each call log() K times have all
\* finished, the chain has M*K blocks, no two blocks share an index, and
\* verify() returns true.
C3_ConcurrentWriters ==
    Joined =>
        /\ Len(chain) = NumThreads * CallsPerThread
        /\ \A i, j \in 1..Len(chain) : i # j => chain[i].index # chain[j].index
        /\ ret.op = "verify" => ret.ok = TRUE

\* C4 (as claimed): at most one log() call at a time is between its read of
\* the last block and the end of its chain persist.
C4_SingleWriter ==
    Cardinality({t \in Threads : pc[t] \in CriticalSection}) <= 1

\* C5 (as claimed): under concurrent writers no log() call raises: neither
\* the invalid-block error nor a failure to open the log file for append.
C5_NoWriterError == \A t \in Threads : loc[t].error = "none"

\* C6: after any sequence of sequential log() calls on a store that started
\* empty, verify() returns true.
C6_VerifyAfterAppends == ret.op = "verify" => ret.ok = TRUE

C6_Witness == ret.op = "verify" /\ enable_blockchain /\ Len(chain) >= 3

\* C7 (as claimed): in every state between operations, also after a
\* rotation, the chain has as many blocks as the live append log has entries.
C7_ChainEqualsLiveLog == Len(chain) = Len(log_file)

\* C7 (amended): until the first rotation the chain has as many blocks as
\* the live append log has entries; a rotation empties the live log and keeps
\* the chain, so the live log always holds exactly the entries of the most
\* recent blocks, those appended since the last rotation.
C7_LiveLogIsChainTail ==
    /\ Len(log_file) <= Len(chain)
    /\ DOMAIN archives = {} => Len(log_file) = Len(chain)
    /\ \A k \in 1..Len(log_file) :
          log_file[k] = chain[Len(chain) - Len(log_file) + k].data

C7_Witness ==
    DOMAIN archives # {} /\ Len(log_file) >= 1 /\ Len(chain) > Len(log_file)

\* C8: after N sequential log() calls on a store that started empty, the
\* index holds N entries and the chain N blocks, and index entry i is the
\* projection of block i: same timestamp, same hash, and the id and level
\* of the entry serialized in the block's data.
C8_IndexProjection ==
    /\ Len(index_file) = next_id
    /\ Len(chain) = next_id
    /\ \A i \in 1..Len(chain) :
          /\ index_file[i].timestamp = chain[i].timestamp
          /\ index_file[i].hash = chain[i].hash
          /\ index_file[i].id = json_loads(chain[i].data).id
          /\ index_file[i].level = json_loads(chain[i].data).level

C8_Witness == Len(index_file) >= 3 /\ DOMAIN archives # {}

\* C9: a log() call that returns yields success, a hash and an index such
\* that index is the chain length before the call, chain[index] exists on
\* return and its hash is the returned hash and the digest of its data.
C9_Receipt ==
    [][(next_id' # next_id /\ ret'.success)
         => /\ ret'.index = Len(chain)
            /\ Len(chain') > ret'.index
            /\ chain'[ret'.index + 1].hash = ret'.hash
            /\ ret'.hash = hash(chain'[ret'.index + 1].data)]_vars

C9_Witness == ret.op = "log" /\ ret.success /\ ret.index >= 2

RotationAborted(l) == l.op = "log" /\ l.rotation \in {"copy_failed", "gzip_failed"}

C11_RotationAbort ==
    [][/\ (next_id' # next_id /\ RotationAborted(last')) =>
            /\ log_file' = Append(log_file, Last(chain').data)
            /\ chain' = Append(chain, Last(chain'))
            /\ Len(index_file') = Len(index_file) + 1
            /\ Last(index_file').id = last'.id
            /\ Last(index_file').hash = Last(chain').hash
            /\ check_rotation(log_file')
       /\ (next_id' # next_id /\ RotationAborted(last) /\ last'.stage = "committed") =>
            last'.rotation # "none"]_vars

C11_Witness ==
    /\ last.op = "log"
    /\ last.rotation = "done"
    /\ DOMAIN archive_tmp # {}
    /\ Len(chain) >= 2

\* C12: a step empties the live log only if it is a log() call whose rotate()
\* copied and compressed the archive and, the cloud backup being enabled,
\* whose upload_file call returned True.
C12_TruncationGated ==
    [][(log_file' = << >> /\ (next_id' # next_id \/ log_file # << >>)) =>
          /\ last'.op = "log"
          /\ last'.rotation = "done"
          /\ opts.cloud => last'.archive_upload = "ok"]_vars

\* The batches handed to the executor by log() itself (backup_to_cloud).
AutoFlushes == {k \in 1..Len(submitted) : submitted[k].by = "log"}

\* C13: in asynchronous mode with a backend that never fails, after B
\* sequential log() calls exactly B div BatchSize batches were flushed by
\* log() itself, and once shutdown() has returned B blocks are in the remote
\* store.
C13_BatchedReplication ==
    (opts.cloud /\ opts.async /\ ~opts.backend_fails) =>
        /\ Cardinality(AutoFlushes) = Len(chain) \div BatchSize
        /\ sd.pc = "returned" => Cardinality(cloud_blocks) = Len(chain)

\* C14: whenever shutdown() has returned, the backup queue is empty and the
\* executor holds no batch that is pending or running.
C14_DrainBarrier ==
    sd.pc = "returned" => (backup_queue = << >> /\ pool = << >>)

\* The tasks appended to the backup queue so far: one per block of the chain,
\* except the blocks of the threads that have not reached the append yet.
Enqueued ==
    {task(chain[k]) : k \in 1..Len(chain)} \
        {task(loc[t].block) : t \in {u \in Threads : pc[u] = "bq_append"}}

\* How many times a task occurs in the batches handed to the executor.
Occurrences(tk) ==
    Cardinality({kj \in (1..Len(submitted)) \X (1..EnvCalls) :
                    /\ kj[2] <= Len(submitted[kj[1]].tasks)
                    /\ submitted[kj[1]].tasks[kj[2]] = tk})

\* The task is still in the queue, or in a copy of the queue that its holder
\* is about to submit.
AwaitsHandoff(tk) ==
    \/ \E k \in 1..Len(backup_queue) : backup_queue[k] = tk
    \/ \E t \in Threads :
          /\ pc[t] \in {"fl_clear", "fl_submit"}
          /\ \E k \in 1..Len(loc[t].queue_copy) : loc[t].queue_copy[k] = tk
    \/ /\ sd.pc \in {"flush_clear", "flush_submit"}
       /\ \E k \in 1..Len(sd.queue_copy) : sd.queue_copy[k] = tk

\* C15: under every interleaving of concurrent log() calls and shutdown(),
\* each enqueued task is handed to the executor at most once, and a task not
\* handed over yet is still in the queue or in a copy about to be submitted.
C15_ExactlyOnceHandoff ==
    opts.async =>
        \A tk \in Enqueued :
            /\ Occurrences(tk) <= 1
            /\ Occurrences(tk) = 0 => AwaitsHandoff(tk)

\* C16: in every step in which a block reaches the remote store, the thread
\* that holds the queue lock takes no part: upload_block is never called
\* from inside the with self.backup_lock block.
C16_NoUploadUnderLock ==
    [][cloud_blocks' # cloud_blocks =>
          \A t \in Threads : bq_lock = t => (pc'[t] = pc[t] /\ loc'[t] = loc[t])]_vars

C16_Witness ==
    /\ bq_lock # 0
    /\ pool # << >>
    /\ cloud_blocks # {}

\* C17: in synchronous mode, after a log() call whose upload_block returned
\* False the call's result tells the failure (it differs from the receipt
\* of a call whose upload succeeded), and the block, its index entry and
\* its bytes in the log (or in the archive, if the call rotated) are kept.
C17_SyncFailureReported ==
    (last.op = "log" /\ last.upload = "failed") =>
        /\ ret # receipt(Last(chain).hash, Last(chain))
        /\ Last(chain).data[1] = last.id
        /\ Last(index_file).id = last.id
        /\ IF last.rotation = "done" THEN log_file = << >>
           ELSE Last(log_file) = Last(chain).data

\* C18: a log() call whose update_index() fails after the bytes were written
\* to the log file still appends its block to the chain and persists it, and
\* returns a result (a success, flagged degraded) instead of raising.
C18_IndexFailureDegraded ==
    [][(next_id' # next_id /\ last'.stage = "update_index") =>
          /\ Len(chain') = Len(chain) + 1
          /\ Last(chain').data = Last(log_file')
          /\ chain_file' = save_chain(chain')
          /\ ret'.success]_vars

\* The number of upload_block calls the executor still has to make.
RECURSIVE PendingUploads(_)
PendingUploads(batches) ==
    IF batches = << >> THEN 0 ELSE Len(Head(batches)) + PendingUploads(Tail(batches))

\* C19: a log() call during which upload_block (synchronous mode) or
\* upload_file (rotation) returned False returns its receipt and appends
\* exactly its own block and index entry; an upload_block call that returns
\* False in an executor thread (asynchronous mode) leaves the chain, the
\* index, the log file and the caller's last result as they are.
C19_UploadFailureIsolated ==
    [][/\ (/\ next_id' # next_id
           /\ last'.op = "log"
           /\ (last'.upload = "failed" \/ last'.archive_upload = "failed")) =>
            /\ chain' = Append(chain, Last(chain'))
            /\ Last(chain').data[1] = last'.id
            /\ Last(chain').hash = hash(Last(chain').data)
            /\ index_file' = Append(index_file, Last(index_file'))
            /\ Last(index_file').hash = Last(chain').hash
            /\ ret' = receipt(Last(chain').hash, Last(chain'))
       /\ (PendingUploads(pool') < PendingUploads(pool) /\ cloud_blocks' = cloud_blocks) =>
            UNCHANGED <<chain, index_file, hash_file, log_file, chain_file, ret>>]_vars

C19_Witness ==
    /\ last.op = "log"
    /\ last.upload = "failed"
    /\ last.archive_upload = "failed"
    /\ ret.success

\* C20: read(limit=n) returns at most n entries, for every n >= 0.
C20_ReadLimit == ret.op = "read" => Len(ret.logs) <= ret.limit

\* C21: read(level=L) returns only entries whose level is L.
C21_ReadLevelFilter ==
    (ret.op = "read" /\ ret.level # NoLevel) =>
        \A k \in 1..Len(ret.logs) : ret.logs[k].level = ret.level

\* C22: read() returns, in order, the entry of each selected index entry
\* (the same id, none twice, none replaced by another), and read(limit=1)
\* without filters on a non-empty store returns the entry appended last.
C22_ReadMostRecent ==
    ret.op = "read" =>
        LET sel == select_entries(index_file, ret.limit, ret.level, ret.start_date,
                                  ret.end_date)
        IN  /\ Len(ret.logs) = Len(sel)
            /\ \A k \in 1..Len(sel) : ret.logs[k].id = sel[k].id
            /\ (/\ ret.limit = 1
                /\ ret.level = NoLevel
                /\ ret.start_date = NoDate
                /\ ret.end_date = NoDate
                /\ chain # << >>) => ret.logs = <<json_loads(Last(chain).data)>>

\* The entries logged so far, in the order of the calls.
Logged == [k \in 1..Len(chain) |-> json_loads(chain[k].data)]

\* C23: search(q) returns exactly the logged entries whose serialized form
\* contains q ignoring case.
C23_SearchExact ==
    ret.op = "search" =>
        LET Matches(log) == contains_ci(log, ret.query)
        IN  ret.logs = SelectSeq(Logged, Matches)

AdminOps == {"verify", "stats", "read", "search", "verify_cloud_backup"}

\* C24: a step that is a call of verify(), stats(), read(), search() or
\* verify_cloud_backup() leaves the chain, the log file, the index, the hash
\* list, the backup queue and the remote store as they were.
C24_AdminReadOnly ==
    [][(ret' # ret /\ ret'.op \in AdminOps) =>
          UNCHANGED <<chain, chain_file, log_file, index_file, hash_file, archives,
                      backup_queue, pool, cloud_blocks, cloud_archives>>]_vars

C24_Witness ==
    /\ ret.op = "verify_cloud_backup"
    /\ ret.missing_blocks # << >>
    /\ backup_queue # << >>
    /\ cloud_blocks # {}

IsPrefix(s, t) == Len(s) <= Len(t) /\ SubSeq(t, 1, Len(s)) = s

\* C29: across every step of log() (with its rotation and flush), of the
\* executor, of shutdown() and of verify(), read(), search() and stats(), the
\* chain before the step is a prefix of the chain after it.
C29_BlocksImmutable == [][IsPrefix(chain, chain')]_vars

C29_Witness ==
    /\ Len(chain) >= 3
    /\ DOMAIN archives # {}
    /\ submitted # << >>
    /\ sd.pc = "returned"
    /\ ret.op = "stats"

\* ---------------------------------------------------------------------------
\* A logger constructed with enable_encryption=True.  __init__ stores the
\* option in self.enable_encryption; log() and append_to_log() never read it.

InitEnc ==
    /\ StoreInit
    /\ enable_blockchain = TRUE
    /\ opts = [cloud |-> FALSE, async |-> TRUE, backend_fails |-> FALSE,
               enable_encryption |-> TRUE, tenantId |-> NoTenant, born |-> 0]

NextEnc ==
    \/ \E level \in Levels, message \in Messages :
          LogEnv(level, message, EmptyMeta, "none", TRUE, TRUE)
    \/ Tick

SpecEnc == InitEnc /\ [][NextEnc]_vars

\* 'Sensitive' in content, for one line of the file: the line is a plain
\* serialized entry whose message field is the message.
plaintext_in(line, message) == json_loads(line).message = message

\* C25 (as claimed): with enable_encryption set, no line of the live log
\* carries the message of a logged entry in the clear.
C25_EncryptedAtRest ==
    opts.enable_encryption =>
        \A i \in DOMAIN log_file, m \in Messages : ~plaintext_in(log_file[i], m)

\* ---------------------------------------------------------------------------
\* New instances on the same directory: ImmutableLogger(log_dir,
\* tenantId=...) after a restart of the process or for another tenant.

Tenants == {"tenant1", "tenant2"}

\* __init__: the options are stored, the queue, the lock and the executor are
\* new, initialize() leaves the files that exist as they are, and
\* load_chain() reads blockchain.json.  The caller goes on with the new
\* instance; born is the id of the first entry it will create.
Construct(tenantId) ==
    /\ Idle
    /\ sd.pc = "not_called"
    /\ tenantId # opts.tenantId
    /\ opts' = [opts EXCEPT !.tenantId = tenantId, !.born = next_id]
    /\ chain' = load_chain(chain_file)
    /\ backup_queue' = << >>
    /\ bq_lock' = 0
    /\ pool' = << >>
    /\ executor_down' = FALSE
    /\ sd' = [pc |-> "not_called", queue_copy |-> << >>]
    /\ ret' = [op |-> "construct"]
    /\ last' = NoLast
    /\ UNCHANGED <<files, fs_aux, enable_blockchain, now, next_id, tampered_at, thread_vars,
                   cloud_blocks, cloud_archives, submitted>>

InitRestart ==
    /\ StoreInit
    /\ enable_blockchain = TRUE
    /\ opts = [cloud |-> FALSE, async |-> TRUE, backend_fails |-> FALSE,
               enable_encryption |-> FALSE, tenantId |-> "tenant1", born |-> 0]

NextRestart ==
    \/ \E level \in Levels : LogEnv(level, "a", EmptyMeta, "none", TRUE, TRUE)
    \/ \E tenantId \in Tenants : Construct(tenantId)
    \/ \E limit \in 1..MaxLimit : Read(limit, NoLevel, NoDate, NoDate)
    \/ Tick

SpecRestart == InitRestart /\ [][NextRestart]_vars

\* log.get(key)
get(log, key) == IF key \in DOMAIN log THEN log[key] ELSE "None"

\* C26 (as claimed): every entry read() returns carries the tenantId of the
\* instance it was called on, and none was logged through an earlier
\* instance of another tenant.
C26_TenantIsolation ==
    ret.op = "read" =>
        \A i \in DOMAIN ret.logs :
            /\ get(ret.logs[i], "tenantId") = opts.tenantId
            /\ ret.logs[i].id >= opts.born

\* C28: block indices are dense and zero-based (position i of the sequence
\* holds index i - 1), in every state of a caller that logs sequentially,
\* also after a new instance has reloaded blockchain.json.
C28_DenseIndices == \A i \in DOMAIN chain : chain[i].index = i - 1

C28_Witness ==
    /\ opts.born >= 2
    /\ Len(chain) >= 3
    /\ ret.op = "log"
    /\ ret.success

\* C27 (as claimed): whatever enable_blockchain is, verify() succeeds exactly
\* when every block i >= 1 has hash = Hash(data) and previousHash equal to the
\* hash of block i - 1, and otherwise names the smallest failing index.
C27_VerifyEquivalence ==
    ret.op = "verify" =>
        LET failing == {i \in 1..(Len(chain) - 1) :
                           ~(/\ chain[i + 1].hash = hash(chain[i + 1].data)
                             /\ chain[i + 1].previousHash = chain[i].hash)}
        IN  /\ ret.ok <=> failing = {}
            /\ ~ret.ok => ret.first_bad = Min(failing)

\* C30: a log() call that passes validation extends the live log by exactly
\* the line of its serialized entry (when it rotates, the archive holds the
\* extended content and the live log is emptied); and a step after which the
\* earlier content is no longer a prefix of the live log is the truncation
\* of a rotation that ran to its end.
C30_AppendOnly ==
    [][/\ (next_id' # next_id /\ last'.stage = "committed") =>
            LET written == Append(log_file, Last(chain').data)
            IN  /\ json_loads(Last(written)).id = last'.id
                /\ IF last'.rotation = "done"
                   THEN log_file' = << >> /\ archives'[now] = gzip(written)
                   ELSE log_file' = written
       /\ (next_id' # next_id /\ last'.stage = "update_index") =>
            /\ Len(log_file') = Len(log_file) + 1
            /\ IsPrefix(log_file, log_file')
            /\ json_loads(Last(log_file')).id = last'.id
       /\ ~IsPrefix(log_file, log_file') =>
            /\ next_id' # next_id
            /\ last'.rotation = "done"
            /\ log_file' = << >>]_vars

C30_Witness ==
    /\ last.op = "log"
    /\ last.stage = "committed"
    /\ last.rotation = "none"
    /\ DOMAIN archives # {}
    /\ Len(log_file) >= 1
    /\ Len(chain) > Len(log_file)

\* ---------------------------------------------------------------------------
\* One caller on a machine where the write of append_to_log() can raise
\* (the disk is full): the statement after it, os.chmod(self.log_file, 0o444),
\* is not in a finally block.

WriteFaults == {"none", "write"}

NextWrite ==
    \/ \E message \in Messages, fault \in WriteFaults :
          LogEnv("INFO", message, EmptyMeta, fault, TRUE, TRUE)
    \/ Tick

SpecWrite == Init /\ [][NextWrite]_vars

\* C31 (as claimed): between calls, when no append and no rotation is in
\* progress, the live log is read-only, also after an append whose write
\* failed.
C31_ReadOnlyAtRest == log_mode = "r"

\* C32: after every log() call that returns, blockchain.json holds the
\* in-memory chain and reads back as it; a logger constructed on the
\* directory loads exactly the chain the earlier instance held; and the first
\* log() call of the new instance appends a block whose index is the loaded
\* length and whose previousHash is the hash of the last loaded block.
C32_PersistLoadRoundTrip ==
    [][/\ (next_id' # next_id /\ ret'.success) =>
            /\ chain_file' = save_chain(chain')
            /\ load_chain(chain_file') = chain'
       /\ ret'.op = "construct" =>
            /\ chain' = load_chain(chain_file)
            /\ chain' = chain
       /\ (ret.op = "construct" /\ next_id' # next_id /\ ret'.success) =>
            /\ chain' = Append(chain, Last(chain'))
            /\ Last(chain').index = Len(chain)
            /\ Last(chain').previousHash =
                  IF chain = << >> THEN Genesis ELSE Last(chain).hash]_vars

C32_Witness ==
    /\ ret.op = "log"
    /\ ret.success
    /\ opts.born >= 1
    /\ next_id = opts.born + 1
    /\ Len(chain) = next_id
    /\ load_chain(chain_file) = chain

\* ---------------------------------------------------------------------------
\* A crash inside log().  The callers of Threads make their calls one after
\* the other (no two are inside log() together); the process can die at any
\* statement of a call, and a new process then constructs a logger on the
\* same directory.

InLog(t) == pc[t] \notin {"ready", "done"}

\* The other callers are outside log(): t may take its next step.
Turn(t) == \A u \in Threads \ {t} : ~InLog(u)

\* The process dies while t is inside log(); the files stay as the last
\* statement left them.  __init__ of the new logger runs load_chain():
\* json.loads raises on a blockchain.json that write_text had opened (and so
\* emptied) and not yet written, and the constructor fails.
CrashRestart(t) ==
    /\ InLog(t)
    /\ Turn(t)
    /\ chain' = IF file_state.chain = "ok" THEN load_chain(chain_file) ELSE << >>
    /\ ret' = [op |-> "restart",
               constructed |-> file_state.chain = "ok",
               in_flight |-> loc[t].entry.id]
    /\ pc' = [u \in Threads |-> "done"]
    /\ loc' = [loc EXCEPT ![t] = [Locals0 EXCEPT !.error = "crash"]]
    /\ UNCHANGED <<files, fs_aux, cloud_vars, enable_blockchain, now, next_id, tampered_at,
                   calls>>

NextCrash ==
    \/ \E t \in Threads : Turn(t) /\ Step(t)
    \/ \E t \in Threads : CrashRestart(t)
    \/ Tick

SpecCrash == Init /\ [][NextCrash]_vars

\* The ids of the entries found in the live log or in the index.
StoredIds ==
    {json_loads(log_file[i]).id : i \in DOMAIN log_file}
        \cup {index_file[i].id : i \in DOMAIN index_file}

\* The ids of the entries that have a block in the chain.
ChainIds == {json_loads(chain[i].data).id : i \in DOMAIN chain}

\* C33 (as claimed): after a crash inside a log() call and the construction
\* of a new logger, the logger exists and its chain holds the block of every
\* call that had returned, verify() succeeds, and the only entry that can be
\* in the live log or the index without a block is that of the call in flight.
C33_CrashBlastRadius ==
    ret.op = "restart" =>
        /\ ret.constructed
        /\ \A t \in Threads :
              loc[t].result.op = "log" =>
                  \E i \in DOMAIN chain : chain[i].hash = loc[t].result.hash
        /\ verify(chain, enable_blockchain).ok
        /\ StoredIds \ ChainIds \subseteq {ret.in_flight}

\* ---------------------------------------------------------------------------
\* Writer threads whose calls overlap between the formation of the block and
\* its validation; what log() does after the validation is one step.

\* log() from append_to_log() to its return, for a block that has passed
\* the validation.
V_commit(t) ==
    LET written == append_to_log(log_file, loc[t].data)
    IN  /\ pc[t] = "chmod_w"
        /\ index_file' = Append(index_file,
                                index_entry(loc[t].entry, loc[t].entry_hash,
                                            st_size(written)))
        /\ hash_file' = Append(hash_file, loc[t].entry_hash)
        /\ chain' = chain_append(chain, loc[t].block)
        /\ chain_file' = save_chain(chain')
        /\ IF check_rotation(written)
           THEN rotate(written)
           ELSE /\ log_file' = written
                /\ log_mode' = "r"
                /\ UNCHANGED archives
        /\ Return(t, receipt(loc[t].entry_hash, loc[t].block))
        /\ UNCHANGED <<fs_aux, cloud_vars, enable_blockchain, now, next_id, ret,
                       tampered_at>>

\* The threads make EnvCalls calls at most between them.
NextValidate ==
    \E t \in Threads :
        \/ next_id < EnvCalls /\ T_create_entry(t)
        \/ T_read_len(t)
        \/ T_read_last(t)
        \/ T_validate(t)
        \/ V_commit(t)

SpecValidate == Init /\ [][NextValidate]_vars

\* The statements of log() up to and including the validation of the block.
UpToValidation == {"ready", "read_len", "read_last", "validate"}

\* C34: a log() call writes nothing before its block has passed validation,
\* so a call that raises the invalid-block error leaves the append log, the
\* index, the hash list, the chain, blockchain.json and the backup queue as
\* they were; and a block formed from the chain validates against that same
\* chain, so a call during which no other call changes the chain never
\* raises the error.
C34_InvalidBlockWritesNothing ==
    /\ [][\A t \in Threads :
             (pc[t] \in UpToValidation /\ pc'[t] # pc[t]) =>
                 UNCHANGED <<log_file, index_file, hash_file, chain, chain_file,
                             backup_queue>>]_vars
    /\ [](\A t \in Threads :
             pc[t] = "validate" =>
                 is_valid_block(chain, new_block(chain, loc[t].entry.timestamp,
                                                 loc[t].data, loc[t].entry_hash)))

C34_Witness ==
    \E t \in Threads :
        /\ loc[t].error = "ValueError"
        /\ pc[t] = "done"
        /\ Len(chain) >= 1
        /\ Len(hash_file) = Len(chain)
        /\ Len(index_file) = Len(chain)

C36_ArchiveEnqueued ==
    [][(opts.cloud /\ opts.async /\ next_id' # next_id /\ last'.op = "log") =>
          /\ last'.upload \in {"none", "queued"}
          /\ last'.archive_upload = "none"
          /\ cloud_blocks' = cloud_blocks
          /\ cloud_archives' = cloud_archives
          /\ last'.rotation = "done" =>
                \/ archive_key(now) \in Keys(backup_queue')
                \/ \E k \in DOMAIN submitted' :
                      archive_key(now) \in Keys(submitted'[k].tasks)]_vars

\* How many of the upload_block calls recorded in results returned True.
Succeeded(results) == Cardinality({j \in DOMAIN results : results[j]})

C38_Reconciliation ==
    [][(ret'.op = "verify_cloud_backup" /\ ret' # ret) =>
          /\ ret'.local_blocks = Len(chain)
          /\ \A i \in DOMAIN chain :
                (\E k \in DOMAIN ret'.missing_blocks :
                    ret'.missing_blocks[k] = chain[i].index)
                    <=> block_key(chain[i]) \notin cloud_blocks
          /\ Len(ret'.missing_blocks) =
                Cardinality({i \in DOMAIN chain : block_key(chain[i]) \notin cloud_blocks})
          /\ ret'.sync_status = "synced" <=> ret'.missing_blocks = << >>
          /\ sd.pc = "returned" => ret'.missing_blocks = << >>]_vars

\* ---------------------------------------------------------------------------
\* Writer threads on a live log that is not empty: the caller logs, then
\* starts the threads (enable_blockchain at its default).

InitRotate == Init /\ enable_blockchain = TRUE

NextRotate ==
    \/ next_id < CallsPerThread /\ Log("INFO", "a", EmptyMeta)
    \/ \E t \in Threads : Step(t)

SpecRotate == InitRotate /\ [][NextRotate]_vars

\* The lines held by the compressed archive of name n.
ArchivedLines(n) ==
    IF n \in DOMAIN archives THEN {archives[n][2][i] : i \in DOMAIN archives[n][2]}
    ELSE {}

\* C39 (as claimed): when a rotation truncates the live log, every line it
\* discards is in the archive this rotation wrote, whatever the log() calls
\* of other threads did between its copy and its truncation.
C39_NoBytesLostByRotation ==
    [][\A t \in Threads :
          (pc[t] = "rot_truncate" /\ pc'[t] = "rot_chmod_r") =>
              \A i \in DOMAIN log_file : log_file[i] \in ArchivedLines(loc[t].rot_ts)]_vars

\* Every log() call of every writer thread has returned its receipt.
AllSucceeded == Joined /\ \A t \in Threads : loc[t].error = "none"

\* C40 (as claimed): when the threads have together completed T successful
\* log() calls (and none has failed), the index file holds T entries and the
\* hash list T hashes.
C40_NoIndexEntryLost ==
    AllSucceeded =>
        /\ file_state.index = "ok" /\ Len(index_file) = NumThreads * CallsPerThread
        /\ file_state.hashes = "ok" /\ Len(hash_file) = NumThreads * CallsPerThread

====
